---- MODULE Spec2Model ----
(***************************************************************************)
(* Model of the tagger repository (Lindronics/tagger): the version          *)
(* arithmetic of src/src/mut_version.rs, the tagging run of src/src/lib.rs  *)
(* (`tagger`) and the earlier stand-alone program of src/src/main.rs        *)
(* (`get_latest_tags`).                                                     *)
(*                                                                          *)
(* Spec is the behaviour of `tagger`, SpecMain that of `get_latest_tags`.    *)
(*                                                                          *)
(* A prerelease label is a sequence of one-character strings, so that the   *)
(* regular expression search, the decimal parse/format and the byte-wise    *)
(* string comparison of the semver crate are computed, not assumed.        *)
(* Build metadata is not modelled: no tag of the model carries any.         *)
(***************************************************************************)
EXTENDS Integers, Sequences, FiniteSets, TLC

(***************************************************************************)
(* Characters and strings                                                   *)
(***************************************************************************)
Digits == <<"0", "1", "2", "3", "4", "5", "6", "7", "8", "9">>

IsDigit(c) == \E i \in 1..10 : Digits[i] = c

DigitVal(c) == (CHOOSE i \in 1..10 : Digits[i] = c) - 1

\* The byte of a character (ASCII), for Rust's byte-wise `Ord for str`.
AsciiOf(c) ==
    IF IsDigit(c) THEN 48 + DigitVal(c)
    ELSE CASE c = "-" -> 45
           [] c = "." -> 46
           [] c = "a" -> 97
           [] c = "c" -> 99
           [] c = "e" -> 101
           [] c = "p" -> 112
           [] c = "r" -> 114
           [] c = "x" -> 120

\* Rust `Ord::cmp` on two strings: -1 (Less), 0 (Equal), 1 (Greater).
RECURSIVE StrCmp(_, _)
StrCmp(a, b) ==
    IF a = <<>> /\ b = <<>> THEN 0
    ELSE IF a = <<>> THEN -1
    ELSE IF b = <<>> THEN 1
    ELSE IF AsciiOf(Head(a)) < AsciiOf(Head(b)) THEN -1
    ELSE IF AsciiOf(Head(a)) > AsciiOf(Head(b)) THEN 1
    ELSE StrCmp(Tail(a), Tail(b))

IntCmp(a, b) == IF a < b THEN -1 ELSE IF a > b THEN 1 ELSE 0

\* `format!("{}", i)` for i >= 0: the decimal digits of i.
RECURSIVE FormatInt(_)
FormatInt(i) ==
    IF i < 10 THEN <<Digits[i + 1]>>
    ELSE Append(FormatInt(i \div 10), Digits[(i % 10) + 1])

I32Max == 2147483647

StripZeros(ds) ==
    LET nz == {i \in 1..Len(ds) : ds[i] # "0"}
    IN  IF nz = {} THEN <<"0">>
        ELSE SubSeq(ds, CHOOSE i \in nz : \A j \in nz : i <= j, Len(ds))

RECURSIVE DecimalValue(_)
DecimalValue(ds) ==
    IF ds = <<>> THEN 0
    ELSE 10 * DecimalValue(SubSeq(ds, 1, Len(ds) - 1)) + DigitVal(ds[Len(ds)])

None == [some |-> FALSE]

Some(x) == [some |-> TRUE, v |-> x]

Ok(x) == [ok |-> TRUE, v |-> x]

Err(e) == [ok |-> FALSE, err |-> e]

\* `str::parse::<i32>` on a non-empty run of digits: the value, or an error
\* when it does not fit in an i32.
ParseI32(ds) ==
    LET s == StripZeros(ds)
    IN  IF Len(s) > 10 \/ (Len(s) = 10 /\ StrCmp(s, FormatInt(I32Max)) = 1)
        THEN Err("ParseIntError")
        ELSE Ok(DecimalValue(s))

(***************************************************************************)
(* semver::Version and its ordering                                         *)
(***************************************************************************)
Version(major, minor, patch, pre) ==
    [major |-> major, minor |-> minor, patch |-> patch, pre |-> pre]

\* `Version::new(major, minor, patch)`: a release, the prerelease is empty.
NewVersion(major, minor, patch) == Version(major, minor, patch, <<>>)

\* `str::split('.')`: the dot-separated identifiers of a label.
RECURSIVE SplitDots(_)
SplitDots(s) ==
    LET dots == {i \in 1..Len(s) : s[i] = "."}
    IN  IF dots = {} THEN <<s>>
        ELSE LET d == CHOOSE i \in dots : \A j \in dots : i <= j
             IN  <<SubSeq(s, 1, d - 1)>> \o SplitDots(SubSeq(s, d + 1, Len(s)))

AllDigits(s) == \A i \in 1..Len(s) : IsDigit(s[i])

\* One step of `Ord for Prerelease`: two identifiers.
IdentCmp(l, r) ==
    IF AllDigits(l) /\ AllDigits(r)
    THEN (IF IntCmp(Len(l), Len(r)) # 0 THEN IntCmp(Len(l), Len(r)) ELSE StrCmp(l, r))
    ELSE IF AllDigits(l) THEN -1
    ELSE IF AllDigits(r) THEN 1
    ELSE StrCmp(l, r)

RECURSIVE IdentsCmp(_, _)
IdentsCmp(ls, rs) ==
    IF ls = <<>> THEN (IF rs = <<>> THEN 0 ELSE -1)
    ELSE IF rs = <<>> THEN 1
    ELSE IF IdentCmp(Head(ls), Head(rs)) # 0 THEN IdentCmp(Head(ls), Head(rs))
    ELSE IdentsCmp(Tail(ls), Tail(rs))

\* `Ord for Prerelease` of the semver crate: the empty prerelease (a release)
\* is greatest; otherwise identifier by identifier.
PrereleaseCmp(a, b) ==
    IF a = <<>> THEN (IF b = <<>> THEN 0 ELSE 1)
    ELSE IF b = <<>> THEN -1
    ELSE IdentsCmp(SplitDots(a), SplitDots(b))

\* `Ord for Version` (derived, field by field): major, minor, patch, pre.
VersionCmp(a, b) ==
    IF a.major # b.major THEN IntCmp(a.major, b.major)
    ELSE IF a.minor # b.minor THEN IntCmp(a.minor, b.minor)
    ELSE IF a.patch # b.patch THEN IntCmp(a.patch, b.patch)
    ELSE PrereleaseCmp(a.pre, b.pre)

\* `a.gt(&b)`
VersionGt(a, b) == VersionCmp(a, b) = 1

(***************************************************************************)
(* src/src/mut_version.rs: impl MutVersion for Version                      *)
(***************************************************************************)
Subversions == {"Major", "Minor", "Patch"}

Pre == <<"p", "r", "e">>

\* `regex!(r"pre(\d+)").captures(s)`: an unanchored, leftmost search for
\* "pre" followed by at least one digit; group 1 is the greedy run of digits.
RegexCaptures(s) ==
    LET starts == {i \in 1..(Len(s) - 3) :
                      SubSeq(s, i, i + 2) = Pre /\ IsDigit(s[i + 3])}
    IN  IF starts = {} THEN None
        ELSE LET i == CHOOSE k \in starts : \A j \in starts : k <= j
                 stop == CHOOSE e \in (i + 3)..Len(s) :
                            /\ \A j \in (i + 3)..e : IsDigit(s[j])
                            /\ (e = Len(s) \/ ~IsDigit(s[e + 1]))
             IN  Some(SubSeq(s, i + 3, stop))

\* set_pretag: the prerelease becomes the text "pre<i>".
set_pretag(self, i) == [self EXCEPT !.pre = Pre \o FormatInt(i)]

\* Mutant: an empty prerelease becomes pre<i> instead of pre0.
increment_prerelease_from_i(self, i) ==
    IF self.pre = <<>> THEN Ok(set_pretag(self, i))
    ELSE LET cap == RegexCaptures(self.pre)
         IN  IF ~cap.some THEN Err("Failed to parse pre-version string")
             ELSE LET n == ParseI32(cap.v)
                  IN  IF ~n.ok THEN n ELSE Ok(set_pretag(self, n.v + i))

\* Mutant: the counter is replaced by i instead of being advanced by i.
increment_prerelease_reset(self, i) ==
    IF self.pre = <<>> THEN Ok(set_pretag(self, 0))
    ELSE LET cap == RegexCaptures(self.pre)
         IN  IF ~cap.some THEN Err("Failed to parse pre-version string")
             ELSE Ok(set_pretag(self, i))

\* increment_prerelease: an empty prerelease becomes pre0 (whatever i is);
\* otherwise the captured counter plus i.  The sum is an i32 in the code; the
\* counters of the model stay far below 2^31, where the two agree.
increment_prerelease(self, i) ==
    IF self.pre = <<>> THEN Ok(set_pretag(self, 0))
    ELSE LET cap == RegexCaptures(self.pre)
         IN  IF ~cap.some THEN Err("Failed to parse pre-version string")
             ELSE LET n == ParseI32(cap.v)
                  IN  IF ~n.ok THEN n ELSE Ok(set_pretag(self, n.v + i))

Contains(pre_tags, v) == \E k \in 1..Len(pre_tags) : pre_tags[k] = v

\* Mutant: a stride of 10.
StrideTen == 10

Stride == 100

\* Mutant: the membership test is dropped, the version is returned as it is.
resolve_collision_unchecked(self, pre_tags) == [recurse |-> FALSE, result |-> self]

\* resolve_collision, one level of its recursion: a version among pre_tags
\* has its prerelease counter advanced by 100 and is resolved again (the
\* error of increment_prerelease is returned); any other is the result.
resolve_collision(self, pre_tags) ==
    IF Contains(pre_tags, self)
    THEN [recurse |-> TRUE, next |-> increment_prerelease(self, Stride)]
    ELSE [recurse |-> FALSE, result |-> self]

\* increment_version: the selected field plus one, the lower fields zeroed;
\* the prerelease is left as it is.
increment_version(self, part) ==
    CASE part = "Major" -> [self EXCEPT !.major = @ + 1, !.minor = 0, !.patch = 0]
      [] part = "Minor" -> [self EXCEPT !.minor = @ + 1, !.patch = 0]
      [] part = "Patch" -> [self EXCEPT !.patch = @ + 1]

(***************************************************************************)
(* src/src/lib.rs: the pure parts of `tagger`                               *)
(***************************************************************************)
Range(seq) == {seq[k] : k \in 1..Len(seq)}

\* The orders in which `repo.tag_names` may enumerate a set of tags.
RECURSIVE Enumerations(_)
Enumerations(S) ==
    IF S = {} THEN {<<>>}
    ELSE UNION {{<<x>> \o q : q \in Enumerations(S \ {x})} : x \in S}

\* Mutant: the fold keeps the element it meets last, without comparing.
IterLastFrom(acc, rest) == IF rest = <<>> THEN acc ELSE rest[Len(rest)]

\* `Iterator::max`: a left fold that keeps the later of two equal elements.
RECURSIVE IterMaxFrom(_, _)
IterMaxFrom(acc, rest) ==
    IF rest = <<>> THEN acc
    ELSE IterMaxFrom(IF VersionCmp(acc, Head(rest)) = 1 THEN acc ELSE Head(rest),
                     Tail(rest))

IterMax(seq) == IF seq = <<>> THEN None ELSE Some(IterMaxFrom(Head(seq), Tail(seq)))

IsRelease(version) == version.pre = <<>>

\* Mutant: the maximum of all tags, prereleases included.
latest_of_all(all_tags) == IterMax(all_tags)

\* lib.rs 45-49: the maximum of the tags whose prerelease is empty.
latest_release(all_tags) == IterMax(SelectSeq(all_tags, IsRelease))

\* `version.unwrap_or(Version::new(0, 0, 0))`
UnwrapOrZero(version) == IF version.some THEN version.v ELSE NewVersion(0, 0, 0)

\* lib.rs 135-142 (print_summary): the prereleases listed as current, in
\* the order of all_tags.
current_prereleases(all_tags, latest) ==
    LET Listed(version) ==
            ~IsRelease(version) /\ VersionGt(version, UnwrapOrZero(latest))
    IN  SelectSeq(all_tags, Listed)

\* lib.rs 51-58: the tag `git describe --tags` names (the nearest tag that
\* is reachable from HEAD, if any parses), kept only if it is a prerelease.
latest_current_prerelease(described) ==
    IF described.some /\ ~IsRelease(described.v) THEN described ELSE None

Interrupted == "Interrupted"

\* lib.rs 190-202 (prompt_increment): the selected field of the version, or
\* of 0.0.0, is incremented; the prompt itself may fail.
prompt_increment(version, selected) ==
    IF selected = Interrupted THEN Err("prompt failed")
    ELSE Ok(increment_version(UnwrapOrZero(version), selected))

IsCanonical(branch_name) ==
    branch_name \in {"refs/heads/main", "refs/heads/master"}

\* lib.rs 79-84: the version handed to resolve_collision.  On a side branch
\* prompt_increment is evaluated (and may fail) before unwrap_or looks at
\* the lineage prerelease.
proposal_candidate(branch_name, latest, lineage, selected) ==
    LET bumped == prompt_increment(latest, selected)
    IN  IF IsCanonical(branch_name) THEN bumped
        ELSE IF ~bumped.ok THEN bumped
        ELSE increment_prerelease(IF lineage.some THEN lineage.v ELSE bumped.v, 1)

(***************************************************************************)
(* The repository's tags and a run of `tagger`                              *)
(***************************************************************************)
VARIABLES
    tags,     \* the versions of the tags of the local repository
    pc,       \* where the run is: "idle", "fetched", "resolve", "prompt"
    run,      \* the locals of the run in progress
    outcome   \* how the last finished run ended: Ok(next_tag) or Err(..)

vars == <<tags, pc, run, outcome>>

\* Bounds of the model.
MaxTags == 3

Label(i) == Pre \o FormatInt(i)

\* Tags other clones have pushed, which `git fetch --tags` may bring in.
RemoteTags ==
    { NewVersion(1, 1, 0), Version(1, 1, 0, Label(0)),
      Version(1, 2, 0, Label(9)), Version(1, 2, 0, Label(10)),
      Version(1, 2, 0, Label(110)),
      Version(1, 2, 0, <<"r", "c", "1">>),
      Version(1, 2, 0, <<"x", "p", "r", "e", "5">>) }

\* Versions a user passes as the explicit target or types at the prompt.
TypedVersions == { NewVersion(1, 1, 0), Version(1, 2, 0, Label(10)) }

BranchNames == {"refs/heads/main", "refs/heads/master", "refs/heads/feature"}

Selections == Subversions \cup {Interrupted}

NoRun ==
    [ next_version |-> None, branch_name |-> "", latest_release |-> None,
      latest_current_prerelease |-> None, listed |-> {}, selected |-> "",
      candidate |-> None, self |-> None, advances |-> 0,
      next_tag_proposal |-> None ]

Init ==
    /\ tags = {}
    /\ pc = "idle"
    /\ run = NoRun
    /\ outcome = None

Finish(result) ==
    /\ pc' = "idle"
    /\ run' = NoRun
    /\ outcome' = result

\* lib.rs 16-28: `tagger` is called with next_version, and `git fetch --tags`
\* brings in tags of the remote (one at a time here: any set of them arrives
\* over several runs).
Fetch ==
    /\ pc = "idle"
    /\ \E fetched \in {{}} \cup {{t} : t \in RemoteTags} :
          /\ Cardinality(tags \cup fetched) <= MaxTags
          /\ tags' = tags \cup fetched
    /\ \E next_version \in {None} \cup {Some(t) : t \in TypedVersions} :
          run' = [NoRun EXCEPT !.next_version = next_version]
    /\ pc' = "fetched"
    /\ outcome' = None

FetchFails ==
    /\ pc = "idle"
    /\ Finish(Err("Failed to fetch tags"))
    /\ UNCHANGED tags

\* lib.rs 31-34: HEAD is not a branch.
HeadDetached ==
    /\ pc = "fetched"
    /\ Finish(Err("HEAD is not a branch"))
    /\ UNCHANGED tags

\* lib.rs 96-103: `repo.tag(name, .., force = false)` refuses a name that
\* exists.
CreateTag(next_tag) ==
    IF next_tag \in tags
    THEN Finish(Err("tag already exists")) /\ UNCHANGED tags
    ELSE /\ Cardinality(tags) < MaxTags
         /\ tags' = tags \cup {next_tag}
         /\ Finish(Ok(next_tag))

\* Mutant: the explicit target is not looked up in all_tags.
explicit_target_unchecked(version, all_tags) == Ok(version)

\* lib.rs 69-75: an explicit target is refused when it is among all_tags and
\* is the next tag otherwise.
explicit_target(version, all_tags) ==
    IF Contains(all_tags, version) THEN Err("Version already exists")
    ELSE Ok(version)

\* lib.rs 39-75 and 90-103 with next_version = Some(version).
TagExplicit ==
    /\ pc = "fetched"
    /\ run.next_version.some
    /\ \E next_tag \in {explicit_target(run.next_version.v, all_tags) :
                           all_tags \in Enumerations(tags)} :
          IF ~next_tag.ok THEN Finish(next_tag) /\ UNCHANGED tags
          ELSE CreateTag(next_tag.v)

\* lib.rs 39-66: what the run reads off the tags, whatever the order in
\* which they are enumerated.
Summary(all_tags) ==
    LET latest == latest_release(all_tags)
    IN  [ latest_release |-> latest,
          listed |-> Range(current_prereleases(all_tags, latest)) ]

\* lib.rs 39-84 with next_version = None: the summary and the candidate.
Propose ==
    /\ pc = "fetched"
    /\ ~run.next_version.some
    /\ \E summary \in {Summary(all_tags) : all_tags \in Enumerations(tags)} :
       \E branch_name \in BranchNames, selected \in Selections,
          described \in {None} \cup {Some(t) : t \in tags} :
          LET lineage == latest_current_prerelease(described)
              cand == proposal_candidate(branch_name, summary.latest_release,
                                         lineage, selected)
          IN  IF ~cand.ok THEN Finish(cand)
              ELSE /\ pc' = "resolve"
                   /\ run' = [ next_version |-> None,
                               branch_name |-> branch_name,
                               latest_release |-> summary.latest_release,
                               latest_current_prerelease |-> lineage,
                               listed |-> summary.listed,
                               selected |-> selected,
                               candidate |-> Some(cand.v),
                               self |-> Some(cand.v),
                               advances |-> 0,
                               next_tag_proposal |-> None ]
                   /\ UNCHANGED outcome
    /\ UNCHANGED tags

\* lib.rs 85 and mut_version.rs 66-71: one level of resolve_collision.
ResolveCollision ==
    /\ pc = "resolve"
    /\ \E step \in {resolve_collision(run.self.v, all_tags) :
                       all_tags \in Enumerations(tags)} :
          IF ~step.recurse
          THEN /\ pc' = "prompt"
               /\ run' = [run EXCEPT !.next_tag_proposal = Some(step.result)]
               /\ UNCHANGED outcome
          ELSE IF ~step.next.ok THEN Finish(step.next)
          ELSE /\ run' = [run EXCEPT !.self = Some(step.next.v),
                                     !.advances = @ + 1]
               /\ UNCHANGED <<pc, outcome>>
    /\ UNCHANGED tags

\* lib.rs 86-103 and 162-168: the user accepts the proposal, types another
\* version, or leaves the prompt; the tag is then created.
PromptNextTag ==
    /\ pc = "prompt"
    /\ \/ CreateTag(run.next_tag_proposal.v)
       \/ \E input \in TypedVersions : CreateTag(input)
       \/ Finish(Err("prompt failed")) /\ UNCHANGED tags

Next ==
    \/ Fetch
    \/ FetchFails
    \/ HeadDetached
    \/ TagExplicit
    \/ Propose
    \/ ResolveCollision
    \/ PromptNextTag

Spec == Init /\ [][Next]_vars

(***************************************************************************)
(* src/src/main.rs: the stand-alone program `get_latest_tags`               *)
(***************************************************************************)
\* main.rs 39-44: the greatest release among the tags, or 0.0.0.
latest_main_tag(all_tags) == UnwrapOrZero(IterMax(SelectSeq(all_tags, IsRelease)))

\* main.rs 46-50: the prereleases greater than latest_main_tag.
all_pre_tags(all_tags, latest) ==
    LET Kept(version) == ~IsRelease(version) /\ VersionGt(version, latest)
    IN  SelectSeq(all_tags, Kept)

\* main.rs 52-55: the greatest (`max_by` of `cmp`) of those prereleases whose
\* tag points at a commit of the current branch that is not on main.
latest_branch_pre_tag(pre_tags, current_branch_tags) ==
    LET OnBranch(version) == version \in current_branch_tags
    IN  IterMax(SelectSeq(pre_tags, OnBranch))

\* main.rs 188-200 (prompt_increment): `selection` is the index the user
\* picked, or None.
main_prompt_increment(version, selection) ==
    IF ~selection.some THEN None
    ELSE Some(CASE selection.v = 0 -> NewVersion(version.major + 1, 0, 0)
                [] selection.v = 1 -> NewVersion(version.major, version.minor + 1, 0)
                [] OTHER -> NewVersion(version.major, version.minor, version.patch + 1))

\* main.rs 203-222 (increment_pretag): as increment_prerelease with i = 1,
\* but a label the regex or the parse refuses panics (`unwrap`).
increment_pretag(version) ==
    IF version.pre = <<>> THEN Ok(Version(version.major, version.minor, version.patch, Label(0)))
    ELSE LET cap == RegexCaptures(version.pre)
         IN  IF ~cap.some THEN Err("panic: unwrap on None")
             ELSE LET n == ParseI32(cap.v)
                  IN  IF ~n.ok THEN Err("panic: unwrap on Err")
                      ELSE Ok(Version(version.major, version.minor, version.patch,
                                      Label(n.v + 1)))

\* main.rs 146-159 (get_next_tag_proposal) and the `unwrap` of line 70.
get_next_tag_proposal(latest, latest_current, is_main, selection) ==
    LET bumped == main_prompt_increment(latest, selection)
    IN  IF is_main
        THEN (IF bumped.some THEN Ok(bumped.v) ELSE Err("panic: unwrap on None"))
        ELSE IF latest_current.some THEN increment_pretag(latest_current.v)
        ELSE IF bumped.some THEN increment_pretag(bumped.v)
        ELSE Err("panic: unwrap on None")

Indices == {Some(0), Some(1), Some(2), None}

\* Between two runs, a tag named `v<version>` appears in the repository
\* (made by `tagger`, or fetched).
TagAppears ==
    /\ \E t \in RemoteTags :
          /\ t \notin tags
          /\ Cardinality(tags) < MaxTags
          /\ tags' = tags \cup {t}
    /\ pc' = "idle"
    /\ run' = NoRun
    /\ outcome' = None

\* main.rs 22-80: one run of the program.  On `main` no commit is on the
\* branch only.  The tag is created under the name `<version>`, without the
\* leading `v`, which parse_version (main.rs 119-123) does not read back as
\* that version: the tags the program reads stay as they are.  Whether a tag
\* of that name exists already, so that `repo.tag(..).unwrap()` panics, is
\* the repository's to decide.
get_latest_tags ==
    /\ pc = "idle"
    /\ \E head_name \in BranchNames, current_branch_tags \in SUBSET tags,
          selection \in Indices, all_tags \in Enumerations(tags) :
          /\ head_name = "refs/heads/main" => current_branch_tags = {}
          /\ LET latest == latest_main_tag(all_tags)
                 pre_tags == all_pre_tags(all_tags, latest)
                 latest_current == latest_branch_pre_tag(pre_tags, current_branch_tags)
                 proposal == get_next_tag_proposal(latest, latest_current,
                                                   head_name = "refs/heads/main", selection)
             IN  /\ run' = [ head_name |-> head_name,
                             current_branch_tags |-> current_branch_tags,
                             latest_main_tag |-> latest,
                             all_pre_tags |-> Range(pre_tags),
                             latest_branch_pre_tag |-> latest_current,
                             selection |-> selection,
                             next_tag_proposal |-> proposal ]
                 /\ IF ~proposal.ok THEN outcome' = proposal
                    ELSE outcome' \in {proposal, Err("panic: tag exists")}
    /\ pc' = "ran"
    /\ UNCHANGED tags

NextMain == TagAppears \/ get_latest_tags

SpecMain == Init /\ [][NextMain]_vars

(***************************************************************************)
(* src/src/mut_version.rs, src/src/version.rs: the operations of a version  *)
(* called on their own, on any version and any list of versions             *)
(***************************************************************************)
\* Bound of the model: the largest numeric field of an input version.
MaxField == 2

\* The versions the operations are called on: releases, prereleases with a
\* counter, and a prerelease whose label holds no counter.
InputVersions ==
    { Version(major, minor, patch, pre) :
        major \in 0..MaxField, minor \in 0..MaxField, patch \in 0..MaxField,
        pre \in {<<>>, Label(0), Label(3), <<"r", "c", "1">>} }

\* The versions a list passed as pre_tags is made of: the version itself and
\* the versions of its triple that the stride leads to.
KnownPool(self) ==
    { self, NewVersion(self.major, self.minor, self.patch),
      Version(self.major, self.minor, self.patch, Label(0)),
      Version(self.major, self.minor, self.patch, Label(Stride)) }

\* resolve_collision, the whole recursion: the first version not among
\* pre_tags, or the error of increment_prerelease.
RECURSIVE resolve_collision_result(_, _)
resolve_collision_result(self, pre_tags) ==
    LET level == resolve_collision(self, pre_tags)
    IN  IF ~level.recurse THEN Ok(level.result)
        ELSE IF ~level.next.ok THEN level.next
        ELSE resolve_collision_result(level.next.v, pre_tags)

\* A caller holds a version, a part and a list of at most MaxTags versions.
InitOps ==
    /\ tags = {}
    /\ pc = "input"
    /\ outcome = None
    /\ \E self \in InputVersions, part \in Subversions :
       \E known \in SUBSET KnownPool(self) :
          /\ Cardinality(known) <= MaxTags
          /\ \E pre_tags \in Enumerations(known) :
                run = [self |-> self, part |-> part, pre_tags |-> pre_tags]

\* self.increment_version(part)
call_increment_version ==
    /\ pc = "input"
    /\ pc' = "incremented"
    /\ outcome' = Ok(increment_version(run.self, run.part))
    /\ UNCHANGED <<tags, run>>

\* self.resolve_collision(pre_tags)
call_resolve_collision ==
    /\ pc = "input"
    /\ pc' = "resolved"
    /\ outcome' = resolve_collision_result(run.self, run.pre_tags)
    /\ UNCHANGED <<tags, run>>

NextOps == call_increment_version \/ call_resolve_collision

SpecOps == InitOps /\ [][NextOps]_vars

(***************************************************************************)
(* What the specification says of versions and tag sets, stated without     *)
(* the operators above                                                      *)
(***************************************************************************)
Triple(v) == <<v.major, v.minor, v.patch>>

TripleLess(a, b) ==
    \/ a[1] < b[1]
    \/ a[1] = b[1] /\ a[2] < b[2]
    \/ a[1] = b[1] /\ a[2] = b[2] /\ a[3] < b[3]

\* A label that is exactly `pre` followed by decimal digits, and its counter.
IsPreLabel(l) ==
    /\ Len(l) >= 4
    /\ SubSeq(l, 1, 3) = <<"p", "r", "e">>
    /\ \A k \in 4..Len(l) : l[k] \in {"0", "1", "2", "3", "4", "5", "6", "7", "8", "9"}

CounterOf(l) == DecimalValue(SubSeq(l, 4, Len(l)))

WithCounter(v, n) == Version(v.major, v.minor, v.patch, Label(n))

\* bump(component): a release, one field incremented, the lower ones zero.
Bump(v, component) ==
    CASE component = "Major" -> NewVersion(v.major + 1, 0, 0)
      [] component = "Minor" -> NewVersion(v.major, v.minor + 1, 0)
      [] component = "Patch" -> NewVersion(v.major, v.minor, v.patch + 1)

Releases(S) == {v \in S : v.pre = <<>>}

\* The release of S no other release of S exceeds, if S holds a release.
MaxRelease(S) ==
    IF Releases(S) = {} THEN None
    ELSE Some(CHOOSE r \in Releases(S) :
                 \A o \in Releases(S) : ~TripleLess(Triple(r), Triple(o)))

ReleaseFloor(S) ==
    LET latest == MaxRelease(S)
    IN  IF latest.some THEN latest.v ELSE NewVersion(0, 0, 0)

\* The prereleases of S above the release floor.
ActivePrereleases(S) ==
    LET floor == Triple(ReleaseFloor(S))
    IN  {v \in S : v.pre # <<>> /\ TripleLess(floor, Triple(v))}

Proposing == pc \in {"resolve", "prompt"}

OnSideLine == Proposing /\ ~IsCanonical(run.branch_name)

OnReleaseLine == Proposing /\ IsCanonical(run.branch_name)

\* C1: the version the engine proposes is not among the tags of the
\* repository at the time it is proposed.
C1_ProposalNotInTagSet ==
    pc = "prompt" => run.next_tag_proposal.v \notin tags

\* A proposal whose candidate collided with a tag.
C1_Witness ==
    /\ pc = "prompt"
    /\ run.candidate.v \in tags
    /\ run.next_tag_proposal.v \notin tags

\* C2: resolve_collision on a prerelease candidate with counter c makes at
\* most |known| advances, each by 100, through versions that are all known,
\* never fails, and returns the first version of the same triple with
\* counter c + 100*k that is not known.
C2_ResolveCollision ==
    (Proposing /\ run.candidate.v.pre # <<>>) =>
        LET cand == run.candidate.v
            c == CounterOf(cand.pre)
        IN  /\ IsPreLabel(cand.pre)
            /\ run.advances <= Cardinality(tags)
            /\ run.self.v = WithCounter(cand, c + 100 * run.advances)
            /\ \A j \in 0..(run.advances - 1) : WithCounter(cand, c + 100 * j) \in tags
            /\ pc = "resolve" =>
                  \A all_tags \in Enumerations(tags) :
                     LET step == resolve_collision(run.self.v, all_tags)
                     IN  step.recurse => step.next.ok
            /\ pc = "prompt" =>
                  /\ run.next_tag_proposal.v = run.self.v
                  /\ run.next_tag_proposal.v \notin tags
                  /\ CounterOf(run.next_tag_proposal.v.pre) >= c

\* Two colliding candidates in a row: pre<c>, pre<c+100>, then pre<c+200>.
C2_Witness ==
    /\ pc = "prompt"
    /\ run.advances = 2
    /\ run.next_tag_proposal.v.pre = Label(CounterOf(run.candidate.v.pre) + 200)

\* C4: latest_release is the maximum release of the tag set (absent when
\* there is none) and the listed prereleases are exactly the prereleases
\* above it (above 0.0.0 when it is absent), in whatever order the tags
\* are enumerated.
C4_Classifier ==
    /\ pc = "fetched" =>
          LET latest == MaxRelease(tags)
              active == ActivePrereleases(tags)
          IN  \A all_tags \in Enumerations(tags) :
                 /\ latest_release(all_tags) = latest
                 /\ Range(current_prereleases(all_tags, latest_release(all_tags)))
                       = active
    /\ Proposing =>
          /\ run.latest_release = MaxRelease(tags)
          /\ run.listed = ActivePrereleases(tags)

\* The tag set {1.0.0, 1.1.0, 1.1.0-pre0}: latest release 1.1.0, nothing
\* listed.
C4_Witness ==
    /\ pc = "prompt"
    /\ tags = {NewVersion(1, 0, 0), NewVersion(1, 1, 0), Version(1, 1, 0, Label(0))}
    /\ run.latest_release = Some(NewVersion(1, 1, 0))
    /\ run.listed = {}

\* C6: on a side branch with a lineage prerelease M.m.p-pre<n>, the
\* candidate is M.m.p-pre<n+1>, whatever component is selected.
C6_LineageContinuation ==
    (OnSideLine /\ run.latest_current_prerelease.some
                /\ IsPreLabel(run.latest_current_prerelease.v.pre)) =>
        LET lineage == run.latest_current_prerelease.v
        IN  run.candidate.v = WithCounter(lineage, CounterOf(lineage.pre) + 1)

\* {1.1.0, 1.2.0-pre0, 1.2.0-pre1} with lineage 1.2.0-pre1 gives 1.2.0-pre2.
C6_Witness ==
    /\ pc = "prompt"
    /\ tags = {NewVersion(1, 1, 0), Version(1, 2, 0, Label(0)), Version(1, 2, 0, Label(1))}
    /\ run.latest_current_prerelease = Some(Version(1, 2, 0, Label(1)))
    /\ ~IsCanonical(run.branch_name)
    /\ run.next_tag_proposal = Some(Version(1, 2, 0, Label(2)))

\* C7: on a side branch without a lineage prerelease, the candidate is the
\* selected bump of latest_release (of 0.0.0 when there is no release) with
\* prerelease pre0.
C7_FirstPrerelease ==
    (OnSideLine /\ ~run.latest_current_prerelease.some) =>
        run.candidate.v = WithCounter(Bump(ReleaseFloor(tags), run.selected), 0)

\* A first prerelease above an existing release, with other prereleases
\* among the tags.
C7_Witness ==
    /\ pc = "prompt"
    /\ ~IsCanonical(run.branch_name)
    /\ ~run.latest_current_prerelease.some
    /\ MaxRelease(tags).some
    /\ ActivePrereleases(tags) # {}
    /\ run.candidate.v.pre = Label(0)

\* C8: on the canonical branch the proposal is the selected bump of
\* latest_release (of 0.0.0 when there is no release), a release;
\* resolve_collision makes no advance and returns it as it is.
C8_ReleaseLine ==
    OnReleaseLine =>
        /\ run.candidate.v = Bump(ReleaseFloor(tags), run.selected)
        /\ run.candidate.v.pre = <<>>
        /\ run.advances = 0
        /\ run.self = run.candidate
        /\ pc = "prompt" => run.next_tag_proposal = run.candidate
        /\ tags = {} => run.candidate.v \in
              {NewVersion(1, 0, 0), NewVersion(0, 1, 0), NewVersion(0, 0, 1)}

\* A release proposed while the tags hold prereleases above the latest
\* release.
C8_Witness ==
    /\ pc = "prompt"
    /\ IsCanonical(run.branch_name)
    /\ MaxRelease(tags).some
    /\ ActivePrereleases(tags) # {}
    /\ run.latest_current_prerelease.some
    /\ run.next_tag_proposal.v = Bump(MaxRelease(tags).v, run.selected)

\* A step of a run with an explicit target that gets past the branch check.
C9_Step ==
    (pc = "fetched" /\ run.next_version.some /\ pc' = "idle"
        /\ outcome' # Err("HEAD is not a branch")) =>
        IF run.next_version.v \in tags
        THEN outcome' = Err("Version already exists") /\ tags' = tags
        ELSE outcome' = Ok(run.next_version.v) /\ tags' = tags \cup {run.next_version.v}

\* C9: a run with an explicit target either fails with "Version already
\* exists" and leaves the tags alone (the target is a tag), or creates
\* exactly the target, unchanged.
C9_ExplicitTarget == [][C9_Step]_vars

\* A run refused because its explicit target is a tag.
C9_Witness ==
    /\ pc = "idle"
    /\ outcome = Err("Version already exists")
    /\ \E t \in TypedVersions : t \in tags

\* The ordering of the specification: the triples in lexicographic order; on
\* equal triples a release above every prerelease, and pre<a> above pre<b>
\* when a > b.
ClaimedGreater(a, b) ==
    \/ TripleLess(Triple(b), Triple(a))
    \/ /\ Triple(a) = Triple(b)
       /\ \/ a.pre = <<>> /\ b.pre # <<>>
          \/ /\ a.pre # <<>> /\ b.pre # <<>>
             /\ CounterOf(a.pre) > CounterOf(b.pre)

\* The versions a run of main.rs compares with `max` and `max_by`: the
\* releases, and the listed prereleases of the current branch.
Compared ==
    Releases(tags) \cup
    {v \in run.all_pre_tags \cap run.current_branch_tags : IsPreLabel(v.pre)}

\* C3: every comparison the run makes orders versions by triple, then release
\* above prerelease, then prereleases by their integer counters.
C3_Ordering ==
    pc = "ran" =>
        \A a, b \in Compared : VersionGt(a, b) <=> ClaimedGreater(a, b)

\* C5: the lineage prerelease a run on a side branch continues is one of the
\* active prereleases, that is, a prerelease above latest_release.
C5_LineageIsActive ==
    (OnSideLine /\ run.latest_current_prerelease.some) =>
        run.latest_current_prerelease.v \in ActivePrereleases(tags)

\* C10: increment_prerelease yields a version from a non-empty label only if
\* the label is exactly `pre` followed by digits.
C10_OnlyExactLabels ==
    (OnSideLine /\ run.latest_current_prerelease.some) =>
        IsPreLabel(run.latest_current_prerelease.v.pre)

\* C11: increment_version applied to any version, one with a prerelease
\* included, returns the release with the selected field incremented by 1,
\* the lower fields zero and the higher fields unchanged.
C11_BumpIsRelease ==
    pc = "incremented" => outcome = Ok(Bump(run.self, run.part))

\* C12: resolve_collision applied to a release that is among pre_tags never
\* returns a version with a prerelease.
C12_ReleaseStaysRelease ==
    (pc = "resolved" /\ run.self.pre = <<>> /\ Contains(run.pre_tags, run.self)) =>
        ~(outcome.ok /\ outcome.v.pre # <<>>)

====
